---- MODULE Spec2Model ----
(***************************************************************************)
(* Model of the Bedrock invocation adapter of bedrock-app.py:              *)
(*   invoke_bedrock_model      single-shot request/response                *)
(*   invoke_bedrock_streaming  generator of cumulative frames              *)
(*   calculate_cost            cost of a call in IEEE-754 doubles          *)
(*   main                      the caller, which bounds max_tokens by a    *)
(*                             slider                                      *)
(*                                                                         *)
(* A Python str is a sequence of tokens (each token an indivisible piece   *)
(* of text); + is \o and the `in` operator on strings is contiguous        *)
(* sub-sequence containment.  A JSON object is a record, a JSON list a     *)
(* sequence.  Temperatures and top-p values are written in tenths          *)
(* (7 is 0.7).                                                             *)
(***************************************************************************)
EXTENDS Integers, Sequences, FiniteSets, TLC

\* ------------------------------------------------------------------ bounds
MaxChunks == 2
MaxTextLen == 1
MaxCostTokens == 12

\* ------------------------------------------------------------- strings
Alphabet == {"a", "b"}

RECURSIVE SeqsUpTo(_, _)
SeqsUpTo(S, n) ==
    IF n = 0 THEN {<<>>}
    ELSE LET shorter == SeqsUpTo(S, n - 1)
         IN  shorter \cup {Append(s, x) : s \in {t \in shorter : Len(t) = n - 1}, x \in S}

Texts == SeqsUpTo(Alphabet, MaxTextLen)

\* Python: sub in s
InString(sub, s) ==
    \E i \in 0..(Len(s) - Len(sub)) : SubSeq(s, i + 1, i + Len(sub)) = sub

\* Python: s.startswith(sub); used by no code path, only to state prefix dispatch
StartsWith(s, sub) ==
    Len(sub) <= Len(s) /\ SubSeq(s, 1, Len(sub)) = sub

IsPrefixOf(s, t) == StartsWith(t, s)

\* --------------------------------------------------- float arithmetic
\* Python floats are IEEE-754 doubles.  A natural number too wide for one
\* machine word is a little-endian sequence of limbs in base Base, without
\* leading zero limbs; a finite non-negative double is m * 2^e with
\* 2^52 <= m < 2^53, and zero is m = <<>>.  Every operation rounds to
\* nearest, ties to even.
Base == 8192
LimbBits == 13
MantissaBits == 53

RECURSIVE Pow2(_)
Pow2(k) == IF k = 0 THEN 1 ELSE 2 * Pow2(k - 1)

RECURSIVE BigNorm(_)
BigNorm(x) ==
    IF x = <<>> THEN <<>>
    ELSE IF x[Len(x)] = 0 THEN BigNorm(SubSeq(x, 1, Len(x) - 1))
    ELSE x

RECURSIVE BigFromInt(_)
BigFromInt(n) ==
    IF n = 0 THEN <<>> ELSE <<n % Base>> \o BigFromInt(n \div Base)

RECURSIVE BigAddCarry(_, _, _)
BigAddCarry(x, y, c) ==
    IF x = <<>> /\ y = <<>> THEN (IF c = 0 THEN <<>> ELSE <<c>>)
    ELSE LET a == IF x = <<>> THEN 0 ELSE Head(x)
             b == IF y = <<>> THEN 0 ELSE Head(y)
             s == a + b + c
         IN  <<s % Base>> \o BigAddCarry(IF x = <<>> THEN <<>> ELSE Tail(x),
                                         IF y = <<>> THEN <<>> ELSE Tail(y),
                                         s \div Base)

BigAdd(x, y) == BigAddCarry(x, y, 0)

\* x - y for x >= y
RECURSIVE BigSubBorrow(_, _, _)
BigSubBorrow(x, y, c) ==
    IF x = <<>> THEN <<>>
    ELSE LET b == IF y = <<>> THEN 0 ELSE Head(y)
             s == Head(x) - b - c
         IN  <<s % Base>> \o BigSubBorrow(Tail(x),
                                          IF y = <<>> THEN <<>> ELSE Tail(y),
                                          IF s < 0 THEN 1 ELSE 0)

BigSub(x, y) == BigNorm(BigSubBorrow(x, y, 0))

\* -1, 0 or 1 as x <, =, > y
RECURSIVE BigCmp(_, _)
BigCmp(x, y) ==
    IF Len(x) # Len(y) THEN (IF Len(x) < Len(y) THEN -1 ELSE 1)
    ELSE IF x = <<>> THEN 0
    ELSE IF x[Len(x)] # y[Len(y)] THEN (IF x[Len(x)] < y[Len(y)] THEN -1 ELSE 1)
    ELSE BigCmp(SubSeq(x, 1, Len(x) - 1), SubSeq(y, 1, Len(y) - 1))

\* x * k + c for a one-limb k
RECURSIVE BigMulSmallCarry(_, _, _)
BigMulSmallCarry(x, k, c) ==
    IF x = <<>> THEN (IF c = 0 THEN <<>> ELSE BigFromInt(c))
    ELSE LET s == Head(x) * k + c
         IN  <<s % Base>> \o BigMulSmallCarry(Tail(x), k, s \div Base)

BigMulSmall(x, k) == BigNorm(BigMulSmallCarry(x, k, 0))

RECURSIVE BigMulRaw(_, _)
BigMulRaw(x, y) ==
    IF y = <<>> THEN <<>>
    ELSE BigAdd(BigMulSmallCarry(x, Head(y), 0), <<0>> \o BigMulRaw(x, Tail(y)))

BigMul(x, y) == BigNorm(BigMulRaw(x, y))

\* quotient and remainder of x by a d below 2^18
RECURSIVE BigDivSmallRaw(_, _)
BigDivSmallRaw(x, d) ==
    IF x = <<>> THEN [q |-> <<>>, r |-> 0]
    ELSE LET hi == BigDivSmallRaw(Tail(x), d)
             cur == hi.r * Base + Head(x)
         IN  [q |-> <<cur \div d>> \o hi.q, r |-> cur % d]

BigDivSmall(x, d) ==
    LET raw == BigDivSmallRaw(x, d) IN [q |-> BigNorm(raw.q), r |-> raw.r]

RECURSIVE BigZeros(_)
BigZeros(n) == IF n = 0 THEN <<>> ELSE <<0>> \o BigZeros(n - 1)

BigShiftLeft(x, k) ==
    IF x = <<>> THEN <<>>
    ELSE BigZeros(k \div LimbBits) \o BigMulSmall(x, Pow2(k % LimbBits))

BigShiftRight(x, k) ==
    IF Len(x) <= k \div LimbBits THEN <<>>
    ELSE BigDivSmall(SubSeq(x, (k \div LimbBits) + 1, Len(x)), Pow2(k % LimbBits)).q

RECURSIVE IntBitLength(_)
IntBitLength(n) == IF n = 0 THEN 0 ELSE 1 + IntBitLength(n \div 2)

BigBitLength(x) ==
    IF x = <<>> THEN 0 ELSE LimbBits * (Len(x) - 1) + IntBitLength(x[Len(x)])

BigOne == <<1>>
BigIsOdd(x) == x # <<>> /\ x[1] % 2 = 1

FloatZero == [m |-> <<>>, e |-> 0]

\* the double nearest to q * 2^e; sticky says that q was truncated from a
\* longer value (q then has more than MantissaBits + 1 bits)
RoundToDouble(q, e, sticky) ==
    IF q = <<>> THEN FloatZero
    ELSE
    LET len == BigBitLength(q) IN
    IF len <= MantissaBits
    THEN [m |-> BigShiftLeft(q, MantissaBits - len), e |-> e - (MantissaBits - len)]
    ELSE
    LET s == len - MantissaBits
        m0 == BigShiftRight(q, s)
        rem == BigSub(q, BigShiftLeft(m0, s))
        c == BigCmp(rem, BigShiftLeft(BigOne, s - 1))
        up == c = 1 \/ (c = 0 /\ (sticky \/ BigIsOdd(m0)))
        m1 == IF up THEN BigAdd(m0, BigOne) ELSE m0
    IN  IF BigBitLength(m1) > MantissaBits
        THEN [m |-> BigShiftRight(m1, 1), e |-> e + s + 1]
        ELSE [m |-> m1, e |-> e + s]

\* Python: n / d for ints n >= 0 and 0 < d < 2^17 (true division, correctly
\* rounded); also the value of the decimal literal n/d for d a power of ten
\* (72 guard bits make the quotient longer than a mantissa)
TrueDiv(n, d) ==
    LET dv == BigDivSmall(BigShiftLeft(BigFromInt(n), 72), d)
    IN  RoundToDouble(dv.q, 0 - 72, dv.r # 0)

\* Python: x * y on floats
FloatMul(x, y) ==
    IF x.m = <<>> \/ y.m = <<>> THEN FloatZero
    ELSE RoundToDouble(BigMul(x.m, y.m), x.e + y.e, FALSE)

\* Python: x + y on non-negative floats
FloatAdd(x, y) ==
    IF x.m = <<>> THEN y
    ELSE IF y.m = <<>> THEN x
    ELSE LET e == IF x.e < y.e THEN x.e ELSE y.e
         IN  RoundToDouble(BigAdd(BigShiftLeft(x.m, x.e - e), BigShiftLeft(y.m, y.e - e)),
                           e, FALSE)

\* ------------------------------------------------------------- registry
MODELS ==
    [ Claude3Sonnet |-> [id |-> <<"anthropic.claude", "-3-sonnet-20240229-v1:0">>,
                         input_price_per_1k |-> TrueDiv(3, 1000),
                         output_price_per_1k |-> TrueDiv(15, 1000),
                         max_tokens |-> 4096],
      Claude3Haiku  |-> [id |-> <<"anthropic.claude", "-3-haiku-20240307-v1:0">>,
                         input_price_per_1k |-> TrueDiv(25, 100000),
                         output_price_per_1k |-> TrueDiv(125, 100000),
                         max_tokens |-> 4096],
      Llama270B     |-> [id |-> <<"meta.llama2", "-70b-chat-v1">>,
                         input_price_per_1k |-> TrueDiv(195, 100000),
                         output_price_per_1k |-> TrueDiv(256, 100000),
                         max_tokens |-> 2048],
      TitanExpress  |-> [id |-> <<"amazon.titan", "-text-express-v1">>,
                         input_price_per_1k |-> TrueDiv(8, 10000),
                         output_price_per_1k |-> TrueDiv(16, 10000),
                         max_tokens |-> 8192] ]

ModelNames == DOMAIN MODELS

RegisteredIds == {MODELS[n].id : n \in ModelNames}

\* ids a direct caller may pass that the registry does not hold
OtherIds ==
    { <<"foo.bar-v1">>,
      <<"x.", "anthropic.claude", "-v1">>,
      <<"meta.llama2", ".", "amazon.titan">> }

ModelIds == RegisteredIds \cup OtherIds

ClaudeMarker == <<"anthropic.claude">>
LlamaMarker == <<"meta.llama2">>
TitanMarker == <<"amazon.titan">>

\* ------------------------------------------------------------ exceptions
\* str(e) of the exceptions the code can meet
UnboundBodyMsg == <<"cannot access local variable 'body' where it is not associated with a value">>
KeyErrorMsg(k) == <<"'", k, "'">>
IndexErrorMsg == <<"list index out of range">>
JSONDecodeMsg == <<"Expecting value: line 1 column 1 (char 0)">>

\* messages of the faults the transport raises (botocore formats them from
\* non-empty templates)
TransportCauses ==
    { <<"An error occurred (", "ThrottlingException", ") when calling the InvokeModel operation">>,
      <<"Could not connect to the endpoint URL">> }

Ok(v) == [ok |-> TRUE, value |-> v]
Raise(msg) == [ok |-> FALSE, cause |-> msg]

\* obj[k] on a JSON object
GetItem(obj, k) ==
    IF k \in DOMAIN obj THEN Ok(obj[k]) ELSE Raise(KeyErrorMsg(k))

\* obj.get(k, default)
Get(obj, k, default) ==
    IF k \in DOMAIN obj THEN obj[k] ELSE default

\* json.dumps / json.loads: the wire carries the serialised document;
\* BadBytes is a payload that is not JSON
BadBytes == [garbled |-> TRUE]
json_dumps(obj) == [json |-> obj]
json_loads(bytes) ==
    IF "json" \in DOMAIN bytes THEN Ok(bytes.json) ELSE Raise(JSONDecodeMsg)

\* --------------------------------------------------- transport payloads
TokenCounts == {0, 3}

\* response documents the transport may return to invoke_model
ChatResponses ==
    { [content |-> <<[text |-> t]>>, usage |-> [input_tokens |-> i, output_tokens |-> o]]
        : t \in Texts, i \in TokenCounts, o \in TokenCounts }
    \cup { [content |-> <<[text |-> <<"a">>], [text |-> <<"b">>]>>,
            usage |-> [input_tokens |-> 3, output_tokens |-> 3]],
           [content |-> <<>>, usage |-> [input_tokens |-> 3, output_tokens |-> 0]],
           [content |-> <<[type |-> "tool_use"]>>,
            usage |-> [input_tokens |-> 3, output_tokens |-> 3]],
           [content |-> <<[text |-> <<"a">>]>>],
           [content |-> <<[text |-> <<"a">>]>>, usage |-> [input_tokens |-> 3]],
           [content |-> <<[text |-> <<"a">>]>>, usage |-> [output_tokens |-> 3]] }

LlamaResponses ==
    { [generation |-> t, prompt_token_count |-> i, generation_token_count |-> o]
        : t \in Texts, i \in TokenCounts, o \in TokenCounts }
    \cup { [generation |-> t] : t \in Texts }
    \cup { [generation |-> <<"a">>, prompt_token_count |-> 3],
           [prompt_token_count |-> 3, generation_token_count |-> 3] }

TitanResponses ==
    { [inputTextTokenCount |-> i, results |-> <<[outputText |-> t, tokenCount |-> o]>>]
        : t \in Texts, i \in TokenCounts, o \in TokenCounts }
    \cup { [inputTextTokenCount |-> 3, results |-> <<>>],
           [inputTextTokenCount |-> 3, results |-> <<[tokenCount |-> 3]>>],
           [inputTextTokenCount |-> 3, results |-> <<[outputText |-> <<"a">>]>>],
           [results |-> <<[outputText |-> <<"a">>, tokenCount |-> 3]>>],
           [inputTextTokenCount |-> 3] }

ResponseBodies == ChatResponses \cup LlamaResponses \cup TitanResponses \cup {[message |-> "x"]}

\* what client.invoke_model does: raise, or return a body whose bytes may
\* or may not parse
InvokeOutcomes ==
    { [raises |-> TRUE, cause |-> c] : c \in TransportCauses }
    \cup { [raises |-> FALSE, bytes |-> json_dumps(r)] : r \in ResponseBodies }
    \cup { [raises |-> FALSE, bytes |-> BadBytes] }

NoRequest == <<>>
Request(model_id, body) ==
    <<[modelId |-> model_id, body |-> json_dumps(body), contentType |-> "application/json"]>>

\* ------------------------------------------------- invoke_bedrock_model
\* a request encoder that dispatches with startswith
ModelBodyByPrefix(model_id, prompt, max_tokens, temperature) ==
    IF StartsWith(model_id, ClaudeMarker) THEN
        [bound |-> TRUE,
         body |-> [anthropic_version |-> "bedrock-2023-05-31",
                   messages |-> <<[role |-> "user", content |-> prompt]>>,
                   max_tokens |-> max_tokens,
                   temperature |-> temperature]]
    ELSE IF StartsWith(model_id, LlamaMarker) THEN
        [bound |-> TRUE,
         body |-> [prompt |-> <<"<s>[INST] ">> \o prompt \o <<" [/INST]">>,
                   max_gen_len |-> max_tokens,
                   temperature |-> temperature,
                   top_p |-> 9]]
    ELSE IF StartsWith(model_id, TitanMarker) THEN
        [bound |-> TRUE,
         body |-> [inputText |-> prompt,
                   textGenerationConfig |->
                       [maxTokenCount |-> max_tokens,
                        temperature |-> temperature,
                        topP |-> 10,
                        stopSequences |-> <<>>]]]
    ELSE [bound |-> FALSE]

\* lines 54-82: the request body, or no binding of `body` at all
ModelBody(model_id, prompt, max_tokens, temperature) ==
    IF InString(ClaudeMarker, model_id) THEN
        [bound |-> TRUE,
         body |-> [anthropic_version |-> "bedrock-2023-05-31",
                   messages |-> <<[role |-> "user", content |-> prompt]>>,
                   max_tokens |-> max_tokens,
                   temperature |-> temperature]]
    ELSE IF InString(LlamaMarker, model_id) THEN
        [bound |-> TRUE,
         body |-> [prompt |-> <<"<s>[INST] ">> \o prompt \o <<" [/INST]">>,
                   max_gen_len |-> max_tokens,
                   temperature |-> temperature,
                   top_p |-> 9]]
    ELSE IF InString(TitanMarker, model_id) THEN
        [bound |-> TRUE,
         body |-> [inputText |-> prompt,
                   textGenerationConfig |->
                       [maxTokenCount |-> max_tokens,
                        temperature |-> temperature,
                        topP |-> 10,
                        stopSequences |-> <<>>]]]
    ELSE [bound |-> FALSE]

\* lines 94-97
DecodeChat(rb) ==
    LET content == GetItem(rb, "content") IN
    IF ~content.ok THEN Raise(content.cause)
    ELSE IF Len(content.value) = 0 THEN Raise(IndexErrorMsg)
    ELSE
    LET text == GetItem(content.value[1], "text") IN
    IF ~text.ok THEN Raise(text.cause)
    ELSE
    LET usage == GetItem(rb, "usage") IN
    IF ~usage.ok THEN Raise(usage.cause)
    ELSE
    LET inp == GetItem(usage.value, "input_tokens")
        out == GetItem(usage.value, "output_tokens") IN
    IF ~inp.ok THEN Raise(inp.cause)
    ELSE IF ~out.ok THEN Raise(out.cause)
    ELSE Ok([text |-> text.value, input_tokens |-> inp.value, output_tokens |-> out.value])

\* lines 98-101
DecodeLlama(rb) ==
    LET text == GetItem(rb, "generation") IN
    IF ~text.ok THEN Raise(text.cause)
    ELSE Ok([text |-> text.value,
             input_tokens |-> Get(rb, "prompt_token_count", 0),
             output_tokens |-> Get(rb, "generation_token_count", 0)])

\* lines 102-105
DecodeTitan(rb) ==
    LET results == GetItem(rb, "results") IN
    IF ~results.ok THEN Raise(results.cause)
    ELSE IF Len(results.value) = 0 THEN Raise(IndexErrorMsg)
    ELSE
    LET text == GetItem(results.value[1], "outputText") IN
    IF ~text.ok THEN Raise(text.cause)
    ELSE
    LET inp == GetItem(rb, "inputTextTokenCount") IN
    IF ~inp.ok THEN Raise(inp.cause)
    ELSE
    LET out == GetItem(results.value[1], "tokenCount") IN
    IF ~out.ok THEN Raise(out.cause)
    ELSE Ok([text |-> text.value, input_tokens |-> inp.value, output_tokens |-> out.value])

\* lines 94-105: the same if/elif chain as the encoder's
DecodeResponse(model_id, rb) ==
    IF InString(ClaudeMarker, model_id) THEN DecodeChat(rb)
    ELSE IF InString(LlamaMarker, model_id) THEN DecodeLlama(rb)
    ELSE IF InString(TitanMarker, model_id) THEN DecodeTitan(rb)
    ELSE Raise(<<"cannot access local variable 'text' where it is not associated with a value">>)

\* the try block, lines 54-112: what it evaluates to and what it sent
TryInvokeModel(model_id, prompt, max_tokens, temperature, t) ==
    LET b == ModelBody(model_id, prompt, max_tokens, temperature) IN
    IF ~b.bound THEN [r |-> Raise(UnboundBodyMsg), sent |-> NoRequest]
    ELSE
    LET req == Request(model_id, b.body) IN
    IF t.raises THEN [r |-> Raise(t.cause), sent |-> req]
    ELSE
    LET rb == json_loads(t.bytes) IN
    IF ~rb.ok THEN [r |-> Raise(rb.cause), sent |-> req]
    ELSE
    LET d == DecodeResponse(model_id, rb.value) IN
    IF ~d.ok THEN [r |-> Raise(d.cause), sent |-> req]
    ELSE [r |-> Ok([text |-> d.value.text,
                    input_tokens |-> d.value.input_tokens,
                    output_tokens |-> d.value.output_tokens,
                    success |-> TRUE]),
          sent |-> req]

\* a handler that catches KeyError alone lets every other exception out
ModelHandlerKeyErrorOnly(cause) ==
    IF cause[1] = "'"
    THEN [raised |-> FALSE,
          result |-> [text |-> <<"Error: ">> \o cause,
                      input_tokens |-> 0,
                      output_tokens |-> 0,
                      success |-> FALSE,
                      error |-> cause]]
    ELSE [raised |-> TRUE, result |-> [success |-> "none"]]

\* the except clause, lines 114-121: every Exception becomes a result
ModelHandler(cause) ==
    [raised |-> FALSE,
     result |-> [text |-> <<"Error: ">> \o cause,
                 input_tokens |-> 0,
                 output_tokens |-> 0,
                 success |-> FALSE,
                 error |-> cause]]

invoke_bedrock_model(model_id, prompt, max_tokens, temperature, t) ==
    LET try == TryInvokeModel(model_id, prompt, max_tokens, temperature, t) IN
    IF try.r.ok
    THEN [raised |-> FALSE, result |-> try.r.value, sent |-> try.sent]
    ELSE [raised |-> ModelHandler(try.r.cause).raised,
          result |-> ModelHandler(try.r.cause).result,
          sent |-> try.sent]

\* --------------------------------------------- invoke_bedrock_streaming
\* lines 128-150: the streaming copy of the request body
StreamBody(model_id, prompt, max_tokens, temperature) ==
    IF InString(ClaudeMarker, model_id) THEN
        [bound |-> TRUE,
         body |-> [anthropic_version |-> "bedrock-2023-05-31",
                   messages |-> <<[role |-> "user", content |-> prompt]>>,
                   max_tokens |-> max_tokens,
                   temperature |-> temperature]]
    ELSE IF InString(LlamaMarker, model_id) THEN
        [bound |-> TRUE,
         body |-> [prompt |-> <<"<s>[INST] ">> \o prompt \o <<" [/INST]">>,
                   max_gen_len |-> max_tokens,
                   temperature |-> temperature,
                   top_p |-> 9]]
    ELSE IF InString(TitanMarker, model_id) THEN
        [bound |-> TRUE,
         body |-> [inputText |-> prompt,
                   textGenerationConfig |->
                       [maxTokenCount |-> max_tokens,
                        temperature |-> temperature,
                        topP |-> 10]]]
    ELSE [bound |-> FALSE]

\* chunk documents the stream may carry
Chunks ==
    { [type |-> "content_block_delta", index |-> 0,
       delta |-> [type |-> "text_delta", text |-> t]] : t \in Texts }
    \cup { [type |-> "message_start"],
           [type |-> "content_block_delta", index |-> 0,
            delta |-> [type |-> "input_json_delta", partial_json |-> <<"{">>]] }
    \cup { [generation |-> t] : t \in Texts }
    \cup { [outputText |-> t] : t \in Texts }

\* events the iteration over response['body'] may deliver
StreamEvents ==
    { [chunk |-> [bytes |-> json_dumps(c)]] : c \in Chunks }
    \cup { [chunk |-> [bytes |-> BadBytes]],
           [internalServerException |-> [message |-> "x"]] }

\* line 162
ParseEvent(event) ==
    LET ch == GetItem(event, "chunk") IN
    IF ~ch.ok THEN Raise(ch.cause)
    ELSE
    LET bytes == GetItem(ch.value, "bytes") IN
    IF ~bytes.ok THEN Raise(bytes.cause)
    ELSE json_loads(bytes.value)

\* a Chat branch that reads delta.text whatever the event type
ChatIncrementAnyType(chunk) ==
    LET delta == GetItem(chunk, "delta") IN
    IF ~delta.ok THEN Raise(delta.cause)
    ELSE GetItem(delta.value, "text")

\* lines 164-166: the text a Chat chunk adds
ChatIncrement(chunk) ==
    LET ty == GetItem(chunk, "type") IN
    IF ~ty.ok THEN Raise(ty.cause)
    ELSE IF ty.value # "content_block_delta" THEN Ok(<<>>)
    ELSE
    LET delta == GetItem(chunk, "delta") IN
    IF ~delta.ok THEN Raise(delta.cause)
    ELSE GetItem(delta.value, "text")

\* a dispatch whose Titan branch reads the Llama field
IncrementCopiedField(model_id, chunk) ==
    IF InString(ClaudeMarker, model_id) THEN ChatIncrement(chunk)
    ELSE IF InString(LlamaMarker, model_id) THEN Ok(Get(chunk, "generation", <<>>))
    ELSE IF InString(TitanMarker, model_id) THEN Ok(Get(chunk, "generation", <<>>))
    ELSE Ok(<<>>)

\* lines 164-170: the text a parsed chunk adds to full_text
Increment(model_id, chunk) ==
    IF InString(ClaudeMarker, model_id) THEN ChatIncrement(chunk)
    ELSE IF InString(LlamaMarker, model_id) THEN Ok(Get(chunk, "generation", <<>>))
    ELSE IF InString(TitanMarker, model_id) THEN Ok(Get(chunk, "outputText", <<>>))
    ELSE Ok(<<>>)

\* a loop that yields the chunk's text in place of the accumulated text
StreamStepYieldsDelta(model_id, acc, event) ==
    LET chunk == ParseEvent(event) IN
    IF ~chunk.ok THEN Raise(chunk.cause)
    ELSE Increment(model_id, chunk.value)

\* lines 162-172, one turn of the for loop: the new full_text, which is
\* also the frame yielded
StreamStep(model_id, acc, event) ==
    LET chunk == ParseEvent(event) IN
    IF ~chunk.ok THEN Raise(chunk.cause)
    ELSE
    LET inc == Increment(model_id, chunk.value) IN
    IF ~inc.ok THEN Raise(inc.cause)
    ELSE Ok(acc \o inc.value)

\* a handler that yields the error frame and then re-raises
StreamHandlerReraises(cause) ==
    [raised |-> TRUE, frame |-> <<"Streaming Error: ">> \o cause]

\* lines 174-175: every Exception becomes one frame
StreamHandler(cause) ==
    [raised |-> FALSE, frame |-> <<"Streaming Error: ">> \o cause]

\* a cost that bills output tokens at the input price
calculate_cost_one_price(input_tokens, output_tokens, model_config) ==
    LET input_cost == FloatMul(TrueDiv(input_tokens, 1000), model_config.input_price_per_1k)
        output_cost == FloatMul(TrueDiv(output_tokens, 1000), model_config.input_price_per_1k)
    IN  FloatAdd(input_cost, output_cost)

\* --------------------------------------------------------- calculate_cost
calculate_cost(input_tokens, output_tokens, model_config) ==
    LET input_cost == FloatMul(TrueDiv(input_tokens, 1000), model_config.input_price_per_1k)
        output_cost == FloatMul(TrueDiv(output_tokens, 1000), model_config.output_price_per_1k)
    IN  FloatAdd(input_cost, output_cost)

\* ------------------------------------------------------------ the caller
Prompts == {<<"Hi">>, <<>>}
Temperatures == {7}
DirectMaxTokens == {1000, 9000}

\* main, lines 222-228: the Max Tokens slider
SliderMin == 100
SliderStep == 100
\* slider positions tried
SliderSample == {100, 2000, 8100}

\* a slider without max_value
SliderValuesNoMax(name) ==
    { v \in SliderSample : v >= SliderMin /\ (v - SliderMin) % SliderStep = 0 }

\* the positions the slider of a model offers, among those tried
SliderValues(name) ==
    { v \in SliderSample :
        /\ v >= SliderMin
        /\ v <= MODELS[name].max_tokens
        /\ (v - SliderMin) % SliderStep = 0 }

\* ---------------------------------------------------------------- state
VARIABLES
    pc,         \* "idle", "returned" (invoke_bedrock_model returned), or the
                \* generator's position: "running" (before the next read of
                \* the stream), "failed" (suspended at the yield of the
                \* except clause), "done" (exhausted)
    call,       \* the arguments of the call in progress
    sent,       \* the requests handed to the transport by this call
    wire,       \* what the transport did in this call, in order: the outcome
                \* of invoke_model, or the raise of
                \* invoke_model_with_response_stream, the events read from
                \* the stream and the raise of a read
    result,     \* what invoke_bedrock_model returned
    full_text,  \* the generator's accumulator
    frames,     \* the frames the generator has yielded
    escaped,    \* an exception left the function
    bill        \* the arguments and the value of the last calculate_cost
                \* call, and the call before it when it differs by one count

vars == <<pc, call, sent, wire, result, full_text, frames, escaped, bill>>

NoCall == [origin |-> "none"]
NoResult == [success |-> "none"]

Delivered(event) == [raises |-> FALSE, event |-> event]
Raised(cause) == [raises |-> TRUE, cause |-> cause]

Bill(model, input_tokens, output_tokens) ==
    [model |-> model, input_tokens |-> input_tokens, output_tokens |-> output_tokens,
     computed |-> FALSE, cost |-> FloatZero,
     last |-> "none", delta |-> 0, prev |-> FloatZero]

NoBill == Bill("Claude3Sonnet", 0, 0)

AdapterIdle ==
    /\ pc = "idle"
    /\ call = NoCall
    /\ sent = NoRequest
    /\ wire = <<>>
    /\ result = NoResult
    /\ full_text = <<>>
    /\ frames = <<>>
    /\ escaped = FALSE

Init ==
    /\ AdapterIdle
    /\ bill = NoBill

Call(origin, mode, model_id, prompt, max_tokens, temperature) ==
    [origin |-> origin, mode |-> mode, model_id |-> model_id, prompt |-> prompt,
     max_tokens |-> max_tokens, temperature |-> temperature]

\* invoke_bedrock_model, entered and left in one step
InvokeModel(origin, model_id, prompt, max_tokens, temperature) ==
    /\ pc = "idle"
    /\ \E t \in InvokeOutcomes :
         LET r == invoke_bedrock_model(model_id, prompt, max_tokens, temperature, t) IN
         /\ result' = r.result
         /\ sent' = r.sent
         /\ wire' = IF r.sent = NoRequest THEN <<>> ELSE <<t>>
         /\ escaped' = r.raised
    /\ call' = Call(origin, "single", model_id, prompt, max_tokens, temperature)
    /\ pc' = "returned"
    /\ UNCHANGED <<full_text, frames, bill>>

\* the generator up to its first read of the stream (lines 127-160): the
\* request is built and invoke_model_with_response_stream is called
StartStreaming(origin, model_id, prompt, max_tokens, temperature) ==
    /\ pc = "idle"
    /\ call' = Call(origin, "streaming", model_id, prompt, max_tokens, temperature)
    /\ LET b == StreamBody(model_id, prompt, max_tokens, temperature) IN
       IF ~b.bound
       THEN /\ sent' = NoRequest
            /\ wire' = <<>>
            /\ frames' = <<StreamHandler(UnboundBodyMsg).frame>>
            /\ escaped' = StreamHandler(UnboundBodyMsg).raised
            /\ pc' = "failed"
       ELSE /\ sent' = Request(model_id, b.body)
            /\ \/ \E c \in TransportCauses :
                    /\ wire' = <<Raised(c)>>
                    /\ frames' = <<StreamHandler(c).frame>>
                    /\ escaped' = StreamHandler(c).raised
                    /\ pc' = "failed"
               \/ /\ wire' = <<>>
                  /\ frames' = <<>>
                  /\ escaped' = FALSE
                  /\ pc' = "running"
    /\ full_text' = <<>>
    /\ UNCHANGED <<result, bill>>

\* the stream delivers an event: one turn of the for loop
StreamChunk ==
    /\ pc = "running"
    /\ Len(wire) < MaxChunks
    /\ \E event \in StreamEvents :
         LET step == StreamStep(call.model_id, full_text, event) IN
         /\ wire' = Append(wire, Delivered(event))
         /\ IF step.ok
            THEN /\ full_text' = step.value
                 /\ frames' = Append(frames, step.value)
                 /\ UNCHANGED <<pc, escaped>>
            ELSE /\ frames' = Append(frames, StreamHandler(step.cause).frame)
                 /\ escaped' = StreamHandler(step.cause).raised
                 /\ pc' = "failed"
                 /\ UNCHANGED full_text
    /\ UNCHANGED <<call, sent, result, bill>>

\* the read of the stream raises
StreamRaise ==
    /\ pc = "running"
    /\ \E c \in TransportCauses :
         /\ wire' = Append(wire, Raised(c))
         /\ frames' = Append(frames, StreamHandler(c).frame)
         /\ escaped' = StreamHandler(c).raised
    /\ pc' = "failed"
    /\ UNCHANGED <<call, sent, result, full_text, bill>>

\* the stream is exhausted: the for loop and the generator end
StreamEnd ==
    /\ pc = "running"
    /\ pc' = "done"
    /\ UNCHANGED <<call, sent, wire, result, full_text, frames, escaped, bill>>

\* resumed after the error frame, the generator falls off its end
StreamAfterError ==
    /\ pc = "failed"
    /\ pc' = "done"
    /\ UNCHANGED <<call, sent, wire, result, full_text, frames, escaped, bill>>

\* main, lines 276-308: the Generate button with the sidebar's values
\* (the usage log main appends to after a successful single-shot call,
\* lines 314-334, is display state outside the adapter and is left out)
MainGenerate ==
    \E selected_model \in ModelNames, prompt \in Prompts \ {<<>>},
       temperature \in Temperatures, streaming_mode \in BOOLEAN :
      \E max_tokens \in SliderValues(selected_model) :
        IF streaming_mode
        THEN StartStreaming("main", MODELS[selected_model].id, prompt, max_tokens, temperature)
        ELSE InvokeModel("main", MODELS[selected_model].id, prompt, max_tokens, temperature)

\* a caller other than main calls invoke_bedrock_model
DirectInvokeModel ==
    \E model_id \in ModelIds, prompt \in Prompts,
       max_tokens \in DirectMaxTokens, temperature \in Temperatures :
        InvokeModel("direct", model_id, prompt, max_tokens, temperature)

\* a caller other than main iterates invoke_bedrock_streaming
DirectStreaming ==
    \E model_id \in ModelIds, prompt \in Prompts,
       max_tokens \in DirectMaxTokens, temperature \in Temperatures :
        StartStreaming("direct", model_id, prompt, max_tokens, temperature)

\* the call is over; the next one starts from scratch
Finish ==
    /\ pc \in {"returned", "done"}
    /\ pc' = "idle"
    /\ call' = NoCall
    /\ sent' = NoRequest
    /\ wire' = <<>>
    /\ result' = NoResult
    /\ full_text' = <<>>
    /\ frames' = <<>>
    /\ escaped' = FALSE
    /\ UNCHANGED bill

Next ==
    \/ MainGenerate
    \/ DirectInvokeModel
    \/ DirectStreaming
    \/ StreamChunk
    \/ StreamRaise
    \/ StreamEnd
    \/ StreamAfterError
    \/ Finish

Spec == Init /\ [][Next]_vars

\* ------------------------------------------------ calculate_cost alone
\* token counts handed to calculate_cost
CostTokens == 0..MaxCostTokens \cup {1000}

adapterVars == <<pc, call, sent, wire, result, full_text, frames, escaped>>

InitCost ==
    /\ AdapterIdle
    /\ bill \in {Bill(n, i, o) : n \in ModelNames, i \in CostTokens, o \in CostTokens}

\* calculate_cost is applied to the counts drawn
ComputeCost ==
    /\ ~bill.computed
    /\ bill' = [bill EXCEPT
                  !.computed = TRUE,
                  !.cost = calculate_cost(bill.input_tokens, bill.output_tokens,
                                          MODELS[bill.model])]
    /\ UNCHANGED adapterVars

\* calculate_cost is applied again with more input tokens
AddInputTokens ==
    /\ bill.computed
    /\ \E n \in CostTokens :
         /\ n > bill.input_tokens
         /\ bill' = [bill EXCEPT
                       !.input_tokens = n,
                       !.cost = calculate_cost(n, bill.output_tokens, MODELS[bill.model]),
                       !.last = "input",
                       !.delta = n - bill.input_tokens,
                       !.prev = bill.cost]
    /\ UNCHANGED adapterVars

\* calculate_cost is applied again with more output tokens
AddOutputTokens ==
    /\ bill.computed
    /\ \E n \in CostTokens :
         /\ n > bill.output_tokens
         /\ bill' = [bill EXCEPT
                       !.output_tokens = n,
                       !.cost = calculate_cost(bill.input_tokens, n, MODELS[bill.model]),
                       !.last = "output",
                       !.delta = n - bill.output_tokens,
                       !.prev = bill.cost]
    /\ UNCHANGED adapterVars

NextCost ==
    \/ ComputeCost
    \/ AddInputTokens
    \/ AddOutputTokens

SpecCost == InitCost /\ [][NextCost]_vars

\* ============================================================ properties
\* helpers of the statements below; none of them is used by the model

\* the family of an id under first-match-wins substring dispatch
SubstringFamily(model_id) ==
    IF InString(ClaudeMarker, model_id) THEN "Chat"
    ELSE IF InString(LlamaMarker, model_id) THEN "InstructionTag"
    ELSE IF InString(TitanMarker, model_id) THEN "FieldNamed"
    ELSE "none"

\* the family of an id under prefix dispatch
PrefixFamily(model_id) ==
    IF StartsWith(model_id, ClaudeMarker) THEN "Chat"
    ELSE IF StartsWith(model_id, LlamaMarker) THEN "InstructionTag"
    ELSE IF StartsWith(model_id, TitanMarker) THEN "FieldNamed"
    ELSE "none"

BodyOf(request) == request.body.json

\* the family whose wire shape a request body has
BodyFamily(body) ==
    IF "anthropic_version" \in DOMAIN body THEN "Chat"
    ELSE IF "max_gen_len" \in DOMAIN body THEN "InstructionTag"
    ELSE IF "inputText" \in DOMAIN body THEN "FieldNamed"
    ELSE "none"

\* the generation-length value a request body carries
GenerationLength(body) ==
    IF "max_tokens" \in DOMAIN body THEN body.max_tokens
    ELSE IF "max_gen_len" \in DOMAIN body THEN body.max_gen_len
    ELSE body.textGenerationConfig.maxTokenCount

Ceiling(model_id) ==
    MODELS[CHOOSE n \in ModelNames : MODELS[n].id = model_id].max_tokens

Last(s) == s[Len(s)]

IsErrorFrame(f) == Len(f) >= 1 /\ f[1] = "Streaming Error: "

ErrorFrames(fs) == {k \in 1..Len(fs) : IsErrorFrame(fs[k])}

\* a response document holds every field the family's decoder requires
HasRequiredFields(f, rb) ==
    CASE f = "Chat" ->
           /\ "content" \in DOMAIN rb
           /\ Len(rb.content) >= 1
           /\ "text" \in DOMAIN rb.content[1]
           /\ "usage" \in DOMAIN rb
           /\ {"input_tokens", "output_tokens"} \subseteq DOMAIN rb.usage
      [] f = "InstructionTag" -> "generation" \in DOMAIN rb
      [] f = "FieldNamed" ->
           /\ "results" \in DOMAIN rb
           /\ Len(rb.results) >= 1
           /\ {"outputText", "tokenCount"} \subseteq DOMAIN rb.results[1]
           /\ "inputTextTokenCount" \in DOMAIN rb
      [] OTHER -> FALSE

\* the text field of a response document that has the required fields
ResponseText(f, rb) ==
    CASE f = "Chat" -> rb.content[1].text
      [] f = "InstructionTag" -> rb.generation
      [] f = "FieldNamed" -> rb.results[1].outputText

\* a full single-shot response of the family whose text is t
FullResponse(f, t) ==
    CASE f = "Chat" ->
           [content |-> <<[type |-> "text", text |-> t]>>,
            usage |-> [input_tokens |-> 3, output_tokens |-> 3]]
      [] f = "InstructionTag" ->
           [generation |-> t, prompt_token_count |-> 3, generation_token_count |-> 3]
      [] f = "FieldNamed" ->
           [inputTextTokenCount |-> 3, results |-> <<[tokenCount |-> 3, outputText |-> t]>>]

\* an entry of the wire is an event that parses into a chunk the family can read
WellFormedEntry(f, w) ==
    /\ ~w.raises
    /\ "chunk" \in DOMAIN w.event
    /\ "bytes" \in DOMAIN w.event.chunk
    /\ "json" \in DOMAIN w.event.chunk.bytes
    /\ f \in {"Chat", "InstructionTag", "FieldNamed"}
    /\ f = "Chat" =>
         LET c == w.event.chunk.bytes.json IN
         /\ "type" \in DOMAIN c
         /\ c.type = "content_block_delta" =>
              ("delta" \in DOMAIN c /\ "text" \in DOMAIN c.delta)

FaultFree(f, ws) == \A k \in 1..Len(ws) : WellFormedEntry(f, ws[k])

\* the text increment of a well-formed entry
TextIncrement(f, w) ==
    LET c == w.event.chunk.bytes.json IN
    CASE f = "Chat" ->
           IF c.type = "content_block_delta" THEN c.delta.text ELSE <<>>
      [] f = "InstructionTag" ->
           IF "generation" \in DOMAIN c THEN c.generation ELSE <<>>
      [] f = "FieldNamed" ->
           IF "outputText" \in DOMAIN c THEN c.outputText ELSE <<>>

\* the concatenation of the increments of entries 1..k
RECURSIVE ConcatIncrements(_, _, _)
ConcatIncrements(f, ws, k) ==
    IF k = 0 THEN <<>>
    ELSE ConcatIncrements(f, ws, k - 1) \o TextIncrement(f, ws[k])

InCall == pc # "idle"
Single == InCall /\ call.mode = "single"
Streaming == InCall /\ call.mode = "streaming"

\* C1: invoke_bedrock_model never raises; it returns success = TRUE exactly
\* when the id has a family, the transport returned, the body parsed and held
\* every field the family requires; on every other outcome it returns
\* success = FALSE, zero token counts, a non-empty error equal to the cause
\* and text = "Error: " followed by the error.
C1_ResultOnEveryOutcome ==
    pc = "returned" =>
      LET f == SubstringFamily(call.model_id)
          extracted ==
            /\ f # "none"
            /\ wire # <<>>
            /\ ~wire[1].raises
            /\ "json" \in DOMAIN wire[1].bytes
            /\ HasRequiredFields(f, wire[1].bytes.json)
      IN  /\ ~escaped
          /\ result.success \in BOOLEAN
          /\ result.success = extracted
          /\ extracted => result.text = ResponseText(f, wire[1].bytes.json)
          /\ ~extracted =>
               /\ DOMAIN result = {"text", "input_tokens", "output_tokens", "success", "error"}
               /\ result.input_tokens = 0
               /\ result.output_tokens = 0
               /\ result.error # <<>>
               /\ result.text = <<"Error: ">> \o result.error
               /\ (wire # <<>> /\ wire[1].raises) => result.error = wire[1].cause

C1_Witness ==
    /\ pc = "returned"
    /\ wire # <<>>
    /\ wire[1].raises
    /\ result.success = FALSE
    /\ result.error = wire[1].cause

\* C2: when the stream, or the decoding of an event, faults after k frames,
\* the generator yields those k frames unchanged and then exactly one
\* "Streaming Error: <cause>" frame, after which it ends: nothing follows
\* the error frame and no exception reaches the consumer.
C2_ErrorFrameTerminal ==
    [][ /\ ~escaped'
        /\ Cardinality(ErrorFrames(frames')) <= 1
        /\ (pc = "running" /\ Len(wire') > Len(wire)
              /\ ~WellFormedEntry(SubstringFamily(call.model_id), Last(wire')))
             => pc' = "failed"
        /\ (pc # "failed" /\ pc' = "failed") =>
             /\ Len(frames') = Len(frames) + 1
             /\ SubSeq(frames', 1, Len(frames)) = frames
             /\ IsErrorFrame(Last(frames'))
             /\ Len(Last(frames')) >= 2
             /\ (wire' # <<>> /\ Last(wire').raises) =>
                  Last(frames') = <<"Streaming Error: ">> \o Last(wire').cause
        /\ pc = "failed" => (pc' = "done" /\ frames' = frames)
        /\ pc = "done" => pc' = "idle"
      ]_vars

C2_Witness ==
    /\ pc = "done"
    /\ Len(frames) = 3
    /\ frames[1] # <<>>
    /\ ~IsErrorFrame(frames[2])
    /\ IsErrorFrame(frames[3])
    /\ Last(wire).raises

\* C3 as stated: every frame, the error frame included, is a
\* prefix-extension of the frame before it.
C3_EveryFrameExtends ==
    \A k \in 2..Len(frames) :
        /\ IsPrefixOf(frames[k - 1], frames[k])
        /\ Len(frames[k - 1]) <= Len(frames[k])

\* C3 amended: every frame other than the terminal error frame is a
\* prefix-extension of the frame before it, so lengths are nondecreasing
\* over the frames that precede the error frame.
C3_TextFramesExtend ==
    \A k \in 2..Len(frames) :
        ~IsErrorFrame(frames[k]) =>
            /\ IsPrefixOf(frames[k - 1], frames[k])
            /\ Len(frames[k - 1]) <= Len(frames[k])

C3_Witness ==
    /\ Len(frames) = 3
    /\ frames[1] # <<>>
    /\ frames[2] # frames[1]
    /\ ~IsErrorFrame(frames[2])
    /\ IsErrorFrame(frames[3])

\* C4: for an id of no family, invoke_bedrock_model returns success = FALSE
\* with an error that names the unsupported model family, and
\* invoke_bedrock_streaming yields one error frame whose cause names it.
NamesUnsupportedFamily(msg) ==
    \E k \in 1..Len(msg) : msg[k] \in {"unsupported model family", "Unsupported model"}

C4_UnsupportedModelError ==
    (InCall /\ pc # "running" /\ SubstringFamily(call.model_id) = "none") =>
        /\ ~escaped
        /\ Single => (result.success = FALSE /\ NamesUnsupportedFamily(result.error))
        /\ Streaming => (Len(frames) = 1 /\ IsErrorFrame(frames[1])
                           /\ NamesUnsupportedFamily(frames[1]))

\* C5 as stated: dispatch is by prefix; an id that holds a family's string
\* only at a later position is unsupported.
C5_PrefixDispatch ==
    InCall =>
        /\ PrefixFamily(call.model_id) = "none" => sent = NoRequest
        /\ sent # NoRequest => BodyFamily(BodyOf(sent[1])) = PrefixFamily(call.model_id)

\* C5 amended: dispatch is by substring, first match wins (Chat, then
\* InstructionTag, then FieldNamed), in both functions and in both steps:
\* the request has the shape of the id's family, the text returned or
\* accumulated is the one that family's fields hold, and only an id holding
\* none of the three strings anywhere is refused.
C5_SubstringDispatch ==
    InCall =>
      LET f == SubstringFamily(call.model_id) IN
        /\ f = "none" =>
             /\ sent = NoRequest
             /\ Single => result.success = FALSE
             /\ Streaming => (Len(frames) = 1 /\ IsErrorFrame(frames[1]))
        /\ f # "none" =>
             /\ sent # NoRequest
             /\ BodyFamily(BodyOf(sent[1])) = f
        /\ (Single /\ result.success = TRUE) =>
             /\ HasRequiredFields(f, wire[1].bytes.json)
             /\ result.text = ResponseText(f, wire[1].bytes.json)
        /\ Streaming =>
             \A k \in 1..Len(frames) :
                 ~IsErrorFrame(frames[k]) =>
                     /\ FaultFree(f, SubSeq(wire, 1, k))
                     /\ frames[k] = ConcatIncrements(f, wire, k)

C5_Witness ==
    /\ Single
    /\ call.model_id = <<"x.", "anthropic.claude", "-v1">>
    /\ sent # NoRequest
    /\ result.success = TRUE
    /\ result.text # <<>>

\* C6: after a fault-free stream of at least one chunk, the last frame is
\* the text invoke_bedrock_model returns for the full response whose text is
\* the concatenation of the chunks' increments.
C6_LastFrameIsSingleShotText ==
    (Streaming /\ pc = "done" /\ sent # NoRequest /\ Len(wire) >= 1
       /\ FaultFree(SubstringFamily(call.model_id), wire)) =>
      LET f == SubstringFamily(call.model_id)
          full == FullResponse(f, ConcatIncrements(f, wire, Len(wire)))
          single == invoke_bedrock_model(call.model_id, call.prompt, call.max_tokens,
                                         call.temperature,
                                         [raises |-> FALSE, bytes |-> json_dumps(full)])
      IN  /\ Len(frames) >= 1
          /\ single.result.success = TRUE
          /\ Last(frames) = single.result.text

C6_Witness ==
    /\ Streaming
    /\ pc = "done"
    /\ SubstringFamily(call.model_id) = "FieldNamed"
    /\ Len(wire) = 2
    /\ FaultFree("FieldNamed", wire)
    /\ Len(frames) = 2
    /\ Len(Last(frames)) = 2

\* C7: on a fault-free stream of n chunks the generator has yielded exactly
\* n frames, in order, and frame k is the concatenation of the increments of
\* chunks 1..k (a Chat chunk of another event type and a chunk without the
\* family's field add nothing); no chunk, no frame.
C7_FramesAreRunningConcatenation ==
    (Streaming /\ sent # NoRequest /\ FaultFree(SubstringFamily(call.model_id), wire)) =>
      LET f == SubstringFamily(call.model_id) IN
        /\ pc \in {"running", "done"}
        /\ Len(frames) = Len(wire)
        /\ \A k \in 1..Len(wire) : frames[k] = ConcatIncrements(f, wire, k)

C7_Witness ==
    /\ Streaming
    /\ pc = "done"
    /\ SubstringFamily(call.model_id) = "Chat"
    /\ Len(wire) = 2
    /\ FaultFree("Chat", wire)
    /\ wire[2].event.chunk.bytes.json.type = "message_start"
    /\ Len(frames) = 2
    /\ frames[1] # <<>>
    /\ frames[2] = frames[1]

\* exact arithmetic on doubles: x * 2^x.e as a natural multiple of 2^e
Scaled(x, e) == IF x.m = <<>> THEN <<>> ELSE BigShiftLeft(x.m, x.e - e)

\* the least exponent among the non-zero doubles of S
MinExp(S) ==
    LET exps == {x.e : x \in {y \in S : y.m # <<>>}}
    IN  IF exps = {} THEN 0 ELSE CHOOSE e \in exps : \A f \in exps : e <= f

BigAbsDiff(a, b) == IF BigCmp(a, b) >= 0 THEN BigSub(a, b) ELSE BigSub(b, a)

\* new >= old
NotLower(new, old) ==
    LET e == MinExp({new, old}) IN BigCmp(Scaled(new, e), Scaled(old, e)) >= 0

\* in real numbers, 1000 * (new - old) against delta * price, and 1000 * new,
\* all as multiples of one power of two
LinearityGap(new, old, delta, price) ==
    LET e == MinExp({new, old, price})
        grown == BigMulSmall(BigAbsDiff(Scaled(new, e), Scaled(old, e)), 1000)
        due == BigMulSmall(Scaled(price, e), delta)
    IN  [gap |-> BigAbsDiff(grown, due),
         new |-> BigMulSmall(Scaled(new, e), 1000)]

\* the increase is d/1000 * price, computed in doubles or in real numbers
ExactlyLinear(new, old, delta, price) ==
    \/ new = FloatAdd(old, FloatMul(TrueDiv(delta, 1000), price))
    \/ (NotLower(new, old) /\ LinearityGap(new, old, delta, price).gap = <<>>)

LinearWithinRounding(new, old, delta, price) ==
    LET g == LinearityGap(new, old, delta, price)
    IN  /\ NotLower(new, old)
        /\ BigCmp(BigShiftLeft(g.gap, 50), g.new) <= 0

CostFormula ==
    FloatAdd(FloatMul(TrueDiv(bill.input_tokens, 1000), MODELS[bill.model].input_price_per_1k),
             FloatMul(TrueDiv(bill.output_tokens, 1000), MODELS[bill.model].output_price_per_1k))

CostFixedPoints ==
    /\ bill.cost = CostFormula
    /\ (bill.input_tokens = 0 /\ bill.output_tokens = 0) => bill.cost = FloatZero
    /\ (bill.input_tokens = 1000 /\ bill.output_tokens = 1000
          /\ bill.model = "Claude3Sonnet") => bill.cost = TrueDiv(18, 1000)

\* C8 as stated: the cost is the formula's value, 0 at (0, 0), 0.018 at
\* (1000, 1000) for prices 0.003 and 0.015, and adding d tokens of one kind
\* adds exactly d/1000 times that kind's price.
C8_ExactlyLinear ==
    bill.computed =>
        /\ CostFixedPoints
        /\ bill.last = "input" =>
             ExactlyLinear(bill.cost, bill.prev, bill.delta,
                           MODELS[bill.model].input_price_per_1k)
        /\ bill.last = "output" =>
             ExactlyLinear(bill.cost, bill.prev, bill.delta,
                           MODELS[bill.model].output_price_per_1k)

\* C8 amended: the cost is the formula's value in double arithmetic, 0 at
\* (0, 0), 0.018 at (1000, 1000) for prices 0.003 and 0.015, never lower
\* after tokens are added, and linear in each count up to rounding: adding d
\* tokens of one kind changes it by d/1000 times that kind's price within a
\* relative error of 2^-50.
C8_LinearWithinRounding ==
    bill.computed =>
        /\ CostFixedPoints
        /\ bill.last = "input" =>
             LinearWithinRounding(bill.cost, bill.prev, bill.delta,
                                  MODELS[bill.model].input_price_per_1k)
        /\ bill.last = "output" =>
             LinearWithinRounding(bill.cost, bill.prev, bill.delta,
                                  MODELS[bill.model].output_price_per_1k)

C8_Witness ==
    /\ bill.computed
    /\ bill.model = "Claude3Sonnet"
    /\ bill.input_tokens = 1000
    /\ bill.output_tokens = 1000
    /\ bill.last = "output"
    /\ bill.delta = 1000
    /\ bill.cost = TrueDiv(18, 1000)
    /\ bill.prev = calculate_cost(1000, 0, MODELS.Claude3Sonnet)

\* C9 as stated: no request for a registered model carries a
\* generation-length value above the model's max_tokens.
C9_NoRequestAboveCeiling ==
    (InCall /\ sent # NoRequest /\ call.model_id \in RegisteredIds) =>
        GenerationLength(BodyOf(sent[1])) <= Ceiling(call.model_id)

\* C9 amended: the entry points send the caller's max_tokens unchanged as
\* the generation-length value, whatever the ceiling; main alone bounds it,
\* its slider giving a value from 100 to the selected model's max_tokens.
C9_PassThroughBoundedByMain ==
    (InCall /\ sent # NoRequest) =>
        /\ GenerationLength(BodyOf(sent[1])) = call.max_tokens
        /\ call.origin = "main" =>
             /\ call.model_id \in RegisteredIds
             /\ GenerationLength(BodyOf(sent[1])) >= SliderMin
             /\ GenerationLength(BodyOf(sent[1])) <= Ceiling(call.model_id)

C9_Witness ==
    /\ InCall
    /\ sent # NoRequest
    /\ call.origin = "main"
    /\ call.model_id = MODELS.Llama270B.id
    /\ GenerationLength(BodyOf(sent[1])) = 2000

\* C10: for the same arguments both functions send the same payload; the
\* FieldNamed payload holds the prompt as inputText and a generation config
\* of maxTokenCount, temperature, topP = 1 and an empty stopSequences.
C10_SamePayloadInBothModes ==
    (InCall /\ sent # NoRequest) =>
      LET body == BodyOf(sent[1]) IN
        /\ body = ModelBody(call.model_id, call.prompt, call.max_tokens,
                            call.temperature).body
        /\ body = StreamBody(call.model_id, call.prompt, call.max_tokens,
                             call.temperature).body
        /\ BodyFamily(body) = "FieldNamed" =>
             /\ body.inputText = call.prompt
             /\ DOMAIN body.textGenerationConfig =
                  {"maxTokenCount", "temperature", "topP", "stopSequences"}
             /\ body.textGenerationConfig.maxTokenCount = call.max_tokens
             /\ body.textGenerationConfig.temperature = call.temperature
             /\ body.textGenerationConfig.topP = 10
             /\ body.textGenerationConfig.stopSequences = <<>>

====
